---- MODULE Spec2Model ----
(***************************************************************************)
(* Model of the user-guide download service: the filename validator, the   *)
(* path resolver and containment guard, the HTTP middlewares and the       *)
(* registered routes.                                                      *)
(*                                                                         *)
(* Strings of the filename pipeline are sequences of byte values (Go       *)
(* strings are byte strings); header values and messages that the code     *)
(* only compares or copies are TLA+ strings or sequences of one-character  *)
(* strings.                                                                *)
(***************************************************************************)
EXTENDS Integers, Sequences, FiniteSets, TLC

VARIABLES
    userGuideFile,  \* FileService.userGuideFile / the string handed to ValidateFilename
    basePath,       \* FileService.basePath
    fsEntry,        \* what the filesystem holds at basePath/<clean filename>
    getwdOk,        \* whether os.Getwd succeeds (filepath.Abs of a relative path)
    server,         \* which handler arrangement serves the request
    req,            \* the request: path, method, Authorization header
    chain,          \* handlers still to run for the request, outermost first
    calls,          \* handlers and service calls already run, in order
    resp,           \* the response written so far
    pc,             \* position of the pure-function harnesses
    result,         \* ValidateFilename(userGuideFile)
    result2,        \* ValidateFilename(result.name)
    svc             \* DownloadUserGuide()

vars == <<userGuideFile, basePath, fsEntry, getwdOk, server, req, chain, calls,
          resp, pc, result, result2, svc>>

----------------------------------------------------------------------------
(* Bounds of the model *)

\* number of pieces an enumerated filename is concatenated from
MaxPieces == 3
\* number of pieces an enumerated Authorization header is concatenated from
MaxHeaderPieces == 3

----------------------------------------------------------------------------
(* Byte-string helpers: package strings *)

\* strings.Contains(s, p)
Contains(s, p) ==
    \E i \in 0..(Len(s) - Len(p)) : \A j \in 1..Len(p) : s[i + j] = p[j]

\* strings.HasPrefix(s, p)
HasPrefix(s, p) ==
    Len(p) <= Len(s) /\ \A j \in 1..Len(p) : s[j] = p[j]

\* strings.HasSuffix(s, p)
HasSuffix(s, p) ==
    Len(p) <= Len(s) /\ \A j \in 1..Len(p) : s[Len(s) - Len(p) + j] = p[j]

\* strings.TrimPrefix(s, p)
TrimPrefix(s, p) ==
    IF HasPrefix(s, p) THEN SubSeq(s, Len(p) + 1, Len(s)) ELSE s

\* strings.ToLower on the ASCII range
ToLower(s) ==
    [i \in 1..Len(s) |-> IF s[i] \in 65..90 THEN s[i] + 32 ELSE s[i]]

\* n copies of byte c
Repeat(c, n) == [i \in 1..n |-> c]

----------------------------------------------------------------------------
(* url.QueryUnescape *)

IsHex(c) == c \in (48..57) \cup (97..102) \cup (65..70)

UnHex(c) ==
    IF c \in 48..57 THEN c - 48
    ELSE IF c \in 97..102 THEN c - 97 + 10
    ELSE c - 65 + 10

\* first pass of unescape: a '%' not followed by two hex digits is an EscapeError
EscapeError(s) ==
    \E i \in 1..Len(s) :
        /\ s[i] = 37
        /\ \/ i + 2 > Len(s)
           \/ ~IsHex(s[i + 1])
           \/ ~IsHex(s[i + 2])

\* position i starts a token of a well-formed string: it is not one of the two
\* hex digits of an escape
IsTokenStart(s, i) ==
    /\ ~(i > 1 /\ s[i - 1] = 37)
    /\ ~(i > 2 /\ s[i - 2] = 37)

\* second pass of unescape, query mode: %XX is one byte, '+' is a space
UnescapeToken(s, i) ==
    IF s[i] = 37 THEN UnHex(s[i + 1]) * 16 + UnHex(s[i + 2])
    ELSE IF s[i] = 43 THEN 32
    ELSE s[i]

\* the decoded tokens of s[lo..hi], split at the token start nearest the middle
RECURSIVE UnescapeRange(_, _, _)
UnescapeRange(s, lo, hi) ==
    IF lo > hi THEN <<>>
    ELSE LET starts == {i \in (lo + 1)..hi : IsTokenStart(s, i)}
             mid == (lo + hi) \div 2
             dist(i) == IF i >= mid THEN i - mid ELSE mid - i
         IN  IF starts = {} THEN <<UnescapeToken(s, lo)>>
             ELSE LET m == CHOOSE i \in starts : \A j \in starts : dist(i) <= dist(j)
                  IN  UnescapeRange(s, lo, m - 1) \o UnescapeRange(s, m, hi)

QueryUnescape(s) ==
    IF EscapeError(s)
    THEN [ok |-> FALSE, val |-> <<>>]
    ELSE [ok |-> TRUE, val |-> UnescapeRange(s, 1, Len(s))]

----------------------------------------------------------------------------
(* package path/filepath, Unix separators *)

RECURSIVE StripTrailingSeparators(_)
StripTrailingSeparators(p) ==
    IF Len(p) > 0 /\ p[Len(p)] = 47
    THEN StripTrailingSeparators(SubSeq(p, 1, Len(p) - 1))
    ELSE p

\* index of the last separator of p, 0 when there is none
LastSeparator(p) ==
    LET idx == {i \in 1..Len(p) : p[i] = 47}
    IN  IF idx = {} THEN 0 ELSE CHOOSE i \in idx : \A j \in idx : j <= i

\* filepath.Base
Base(path) ==
    IF path = <<>> THEN <<46>>
    ELSE LET q == StripTrailingSeparators(path)
             r == SubSeq(q, LastSeparator(q) + 1, Len(q))
         IN  IF r = <<>> THEN <<47>> ELSE r

\* filepath.Ext: the suffix from the final '.' of the last path element
Ext(path) ==
    LET from == LastSeparator(path) + 1
        dots == {i \in from..Len(path) : path[i] = 46}
    IN  IF dots = {} THEN <<>>
        ELSE SubSeq(path, CHOOSE i \in dots : \A j \in dots : j <= i, Len(path))

\* the elements of p between separators, from the separator (or string start) at a
RECURSIVE SplitFrom(_, _)
SplitFrom(p, a) ==
    IF a > Len(p) THEN <<>>
    ELSE LET later == {j \in (a + 1)..Len(p) : p[j] = 47} \cup {Len(p) + 1}
             b == CHOOSE j \in later : \A k \in later : j <= k
         IN  <<SubSeq(p, a + 1, b - 1)>> \o SplitFrom(p, b)

\* the lexical processing of filepath.Clean on the elements: drop "" and ".",
\* let ".." remove the element before it (or itself, at the root)
RECURSIVE CleanElements(_, _, _)
CleanElements(elems, out, rooted) ==
    IF elems = <<>> THEN out
    ELSE LET e == Head(elems)
             rest == Tail(elems)
         IN  IF e = <<>> \/ e = <<46>> THEN CleanElements(rest, out, rooted)
             ELSE IF e = <<46, 46>>
                  THEN IF out # <<>> /\ out[Len(out)] # <<46, 46>>
                       THEN CleanElements(rest, SubSeq(out, 1, Len(out) - 1), rooted)
                       ELSE IF rooted THEN CleanElements(rest, out, rooted)
                       ELSE CleanElements(rest, Append(out, e), rooted)
             ELSE CleanElements(rest, Append(out, e), rooted)

RECURSIVE JoinElements(_)
JoinElements(elems) ==
    IF elems = <<>> THEN <<>>
    ELSE IF Len(elems) = 1 THEN elems[1]
    ELSE elems[1] \o <<47>> \o JoinElements(Tail(elems))

IsAbs(p) == Len(p) > 0 /\ p[1] = 47

\* filepath.Clean
Clean(p) ==
    LET rooted == IsAbs(p)
        body == JoinElements(CleanElements(SplitFrom(p, 0), <<>>, rooted))
    IN  IF rooted THEN <<47>> \o body
        ELSE IF body = <<>> THEN <<46>> ELSE body

\* filepath.Join of two elements: empty elements are ignored, the result is cleaned
Join(a, b) ==
    IF a = <<>> /\ b = <<>> THEN <<>>
    ELSE IF a = <<>> THEN Clean(b)
    ELSE IF b = <<>> THEN Clean(a)
    ELSE Clean(a \o <<47>> \o b)

\* the working directory of the process: /w
Getwd == <<47, 119>>

\* filepath.Abs: fails only when the path is relative and os.Getwd fails
Abs(p, wdOk) ==
    IF IsAbs(p) THEN [ok |-> TRUE, val |-> Clean(p)]
    ELSE IF ~wdOk THEN [ok |-> FALSE, val |-> <<>>]
    ELSE [ok |-> TRUE, val |-> Join(Getwd, p)]

----------------------------------------------------------------------------
(* Utils.ValidateFilename *)

\* the length limit of ValidateFilename
MaxFilenameLen == 255

Rejected(reason, detail) ==
    [ok |-> FALSE, name |-> <<>>, err |-> reason, detail |-> detail]

Accepted(name) ==
    [ok |-> TRUE, name |-> name, err |-> "", detail |-> <<>>]

\* the control-character loop without the exceptions for 9, 10 and 13
HasControlCharNoExceptions(s) ==
    \E i \in 1..Len(s) : s[i] < 32

\* the control-character loop: code points below 32 other than 9, 10, 13
HasControlChar(s) ==
    \E i \in 1..Len(s) : s[i] < 32 /\ s[i] # 9 /\ s[i] # 10 /\ s[i] # 13

\* the character class widened by '%'
InFilenameClassWithPercent(c) ==
    c \in (97..122) \cup (65..90) \cup (48..57) \cup {46, 95, 45, 37}

\* the character class [a-zA-Z0-9._-]
InFilenameClass(c) ==
    c \in (97..122) \cup (65..90) \cup (48..57) \cup {46, 95, 45}

\* filenamePattern.MatchString: ^[a-zA-Z0-9._-]+$
filenamePattern(s) ==
    Len(s) > 0 /\ \A i \in 1..Len(s) : InFilenameClass(s[i])

\* "..", "~/", "/", "\", ":", "*", "?", '"', "<", ">", "|"
dangerousPatterns ==
    << <<46, 46>>, <<126, 47>>, <<47>>, <<92>>, <<58>>, <<42>>, <<63>>,
       <<34>>, <<60>>, <<62>>, <<124>> >>

\* the length check left out
LengthOkNoLimit(s) == TRUE

\* the filename is within the length limit
LengthOk(s) == Len(s) <= MaxFilenameLen

\* indices of the dangerous patterns the lowercased filename contains
DangerousHits(s) ==
    {k \in 1..Len(dangerousPatterns) : Contains(ToLower(s), dangerousPatterns[k])}

\* the base-name check after filepath.Base
BadBaseName(clean) ==
    clean = <<>> \/ clean = <<46>> \/ clean = <<46, 46>>

\* sanitisation by filepath.Base alone: the pattern, length and substring
\* checks left out
ValidateFilenameBaseOnly(filename) ==
    LET dec == QueryUnescape(filename)
        cleanFilename == Base(dec.val)
    IN  IF ~dec.ok THEN Rejected("invalid filename encoding", <<>>)
        ELSE IF Contains(dec.val, <<0>>)
             THEN Rejected("null byte detected in filename", <<>>)
        ELSE IF HasControlChar(dec.val)
             THEN Rejected("control character detected in filename", <<>>)
        ELSE IF BadBaseName(cleanFilename)
             THEN Rejected("invalid filename after sanitization", <<>>)
        ELSE Accepted(cleanFilename)

ValidateFilename(filename) ==
    LET dec == QueryUnescape(filename)
        decodedFilename == dec.val
        hits == DangerousHits(decodedFilename)
        cleanFilename == Base(decodedFilename)
    IN  IF ~dec.ok THEN Rejected("invalid filename encoding", <<>>)
        ELSE IF Contains(decodedFilename, <<0>>)
             THEN Rejected("null byte detected in filename", <<>>)
        ELSE IF HasControlChar(decodedFilename)
             THEN Rejected("control character detected in filename", <<>>)
        ELSE IF ~filenamePattern(decodedFilename)
             THEN Rejected("filename contains invalid characters", <<>>)
        ELSE IF ~LengthOk(decodedFilename)
             THEN Rejected("filename too long", <<>>)
        ELSE IF hits # {}
             THEN Rejected("dangerous pattern detected in filename",
                           dangerousPatterns[CHOOSE k \in hits : \A j \in hits : k <= j])
        ELSE IF BadBaseName(cleanFilename)
             THEN Rejected("invalid filename after sanitization", <<>>)
        ELSE Accepted(cleanFilename)

----------------------------------------------------------------------------
(* Utils.IsAllowedExtension, Utils.IsFileSecure, FileService.DownloadUserGuide *)

\* ".pdf", ".doc", ".docx", ".txt", ".md"
allowedExtensions ==
    { <<46, 112, 100, 102>>, <<46, 100, 111, 99>>, <<46, 100, 111, 99, 120>>,
      <<46, 116, 120, 116>>, <<46, 109, 100>> }

\* the extension compared without lowercasing
IsAllowedExtensionCaseSensitive(filename) ==
    Ext(filename) \in allowedExtensions

IsAllowedExtension(filename) ==
    ToLower(Ext(filename)) \in allowedExtensions

\* What the filesystem holds at the joined path:
\*   absent     nothing
\*   file       a regular file stored in the base directory
\*   dir        a directory
\*   link_in    a symlink to a regular file inside the base directory
\*   link_out   a symlink to a regular file outside the base directory
\*   link_dir   a symlink to a directory
\*   link_none  a symlink whose target does not exist
FsEntries == {"absent", "file", "dir", "link_in", "link_out", "link_dir", "link_none"}

\* os.Stat follows symlinks
StatFails(entry) == entry \in {"absent", "link_none"}
StatIsDir(entry) == entry \in {"dir", "link_dir"}

\* the symlink-resolved location of the entry lies inside the base directory
CanonicalInside(entry) == entry \in {"file", "dir", "link_in"}

\* the final comparison of IsFileSecure on the unresolved absolute paths
PrefixCheck(absFilePath, absBasePath) ==
    HasPrefix(absFilePath, absBasePath \o <<47>>) \/ absFilePath = absBasePath

IsFileSecure(fullPath, base, entry, wdOk) ==
    LET absBasePath == Abs(base, wdOk)
        absFilePath == Abs(fullPath, wdOk)
    IN  IF StatFails(entry) THEN FALSE
        ELSE IF StatIsDir(entry) THEN FALSE
        ELSE IF ~absBasePath.ok THEN FALSE
        ELSE IF ~absFilePath.ok THEN FALSE
        ELSE PrefixCheck(absFilePath.val, absBasePath.val)

Failed(reason, detail) ==
    [ok |-> FALSE, path |-> <<>>, err |-> reason, detail |-> detail]

Resolved(path) ==
    [ok |-> TRUE, path |-> path, err |-> "", detail |-> <<>>]

\* the hidden-file condition of DownloadUserGuide
IsHiddenFile(cleanFilename) ==
    HasPrefix(cleanFilename, <<46>>) /\ Ext(cleanFilename) = <<>>

\* the part of DownloadUserGuide after a successful validation
Resolve(cleanFilename, base, entry, wdOk) ==
    LET fullPath == Join(base, cleanFilename)
        absPath == Abs(fullPath, wdOk)
    IN  IF ~IsAllowedExtension(cleanFilename)
        THEN Failed("file type not allowed", ToLower(Ext(cleanFilename)))
        ELSE IF IsHiddenFile(cleanFilename)
             THEN Failed("hidden files not allowed", <<>>)
        ELSE IF ~IsFileSecure(fullPath, base, entry, wdOk)
             THEN Failed("file access denied or file not found", <<>>)
        ELSE IF ~absPath.ok
             THEN Failed("unable to resolve file path", <<>>)
        ELSE Resolved(absPath.val)

DownloadUserGuide(filename, base, entry, wdOk) ==
    LET v == ValidateFilename(filename)
    IN  IF ~v.ok THEN Failed(v.err, v.detail)
        ELSE Resolve(v.name, base, entry, wdOk)

----------------------------------------------------------------------------
(* Enumerated inputs *)

\* all concatenations of at most n pieces
RECURSIVE Concats(_, _)
Concats(pieces, n) ==
    IF n = 0 THEN {<<>>}
    ELSE LET shorter == Concats(pieces, n - 1)
         IN  shorter \cup {s \o p : s \in shorter, p \in pieces}

\* pieces of the filenames handed to the validator:
\* a P . / \ % + ~ %2e %2f %2F %5c %252e %252f %00 %01 %0a %zz
ValidatePieces ==
    { <<97>>, <<80>>, <<46>>, <<47>>, <<92>>, <<37>>, <<43>>, <<126>>,
      <<37, 50, 101>>, <<37, 50, 102>>, <<37, 50, 70>>, <<37, 53, 99>>,
      <<37, 50, 53, 50, 101>>, <<37, 50, 53, 50, 102>>,
      <<37, 48, 48>>, <<37, 48, 49>>, <<37, 48, 97>>, <<37, 122, 122>> }

\* runs of 'a' appended to a single piece to reach the length limit
PadLengths == {MaxFilenameLen - 1, MaxFilenameLen}

ValidateInputs ==
    Concats(ValidatePieces, MaxPieces)
        \cup {s \o Repeat(97, n) : s \in Concats(ValidatePieces, 1), n \in PadLengths}

\* pieces of the configured filenames of the service:
\* a . / %2e .pdf .PDF .exe
ServicePieces ==
    { <<97>>, <<46>>, <<47>>, <<37, 50, 101>>,
      <<46, 112, 100, 102>>, <<46, 80, 68, 70>>, <<46, 101, 120, 101>> }

ServiceInputs == Concats(ServicePieces, MaxPieces)

\* configured base directories: /g  g  /  ./g/
BasePaths == { <<47, 103>>, <<103>>, <<47>>, <<46, 47, 103, 47>> }

NoResult == [ok |-> FALSE, name |-> <<>>, err |-> "none", detail |-> <<>>]
NoSvc == [ok |-> FALSE, path |-> <<>>, err |-> "none", detail |-> <<>>]

----------------------------------------------------------------------------
(* net/http: requests, responses, http.Error, http.ServeFile *)

\* A URL path is the sequence of its "/" separators and the names between them.
\* "/download/userguide"
PathUserGuide == <<"/", "download", "/", "userguide">>
\* "/health"
PathHealth == <<"/", "health">>
\* "/public/download"
PathPublic == <<"/", "public", "/", "download">>
\* "/protected/download"
PathProtected == <<"/", "protected", "/", "download">>
\* "/static/"
PrefixStatic == <<"/", "static", "/">>

\* request paths: the routes, a route with a trailing "/", a file and the
\* directory under /static/, and an unrouted path
RequestPaths ==
    { PathUserGuide, PathHealth, PathPublic, PathProtected,
      PathUserGuide \o <<"/">>, PathHealth \o <<"/">>,
      PrefixStatic \o <<"x.pdf">>, PrefixStatic, <<"/", "other">> }

RequestMethods == {"GET", "POST"}

\* "Bearer "
BearerPrefix == <<66, 101, 97, 114, 101, 114, 32>>
\* "valid-oauth-token"
ValidToken ==
    <<118, 97, 108, 105, 100, 45, 111, 97, 117, 116, 104, 45, 116, 111, 107, 101, 110>>

\* pieces of the Authorization header values:
\* "Bearer "  "bearer "  "valid-oauth-token"  "valid-oauth-tokem"  " "  "x"
HeaderPieces ==
    { BearerPrefix, <<98, 101, 97, 114, 101, 114, 32>>, ValidToken,
      <<118, 97, 108, 105, 100, 45, 111, 97, 117, 116, 104, 45, 116, 111, 107, 101, 109>>,
      <<32>>, <<120>> }

\* r.Header.Get("Authorization") is "" when the header is absent
AuthHeaders == Concats(HeaderPieces, MaxHeaderPieces)

NoRequest == [path |-> <<>>, method |-> "GET", auth |-> <<>>]

HeaderNames ==
    { "Content-Type", "Content-Disposition", "X-Content-Type-Options",
      "X-Frame-Options", "X-XSS-Protection", "Cache-Control", "Referrer-Policy" }

\* a header value: its fixed text and the bytes copied into it
Value(text) == [text |-> text, arg |-> <<>>]
Unset == [text |-> "", arg |-> <<>>]

\* a ResponseWriter nothing has been written to; aborted: the handler panicked
\* and the server dropped the connection
NewResponse ==
    [status |-> 0, body |-> "", headers |-> [h \in HeaderNames |-> Unset],
     aborted |-> FALSE]

\* w.Header().Set(name, value)
SetHeader(r, name, value) ==
    [r EXCEPT !.headers = [@ EXCEPT ![name] = value]]

\* http.Error(w, msg, code)
HttpError(r, msg, code) ==
    LET h1 == SetHeader(r, "Content-Type", Value("text/plain; charset=utf-8"))
        h2 == SetHeader(h1, "X-Content-Type-Options", Value("nosniff"))
    IN  [h2 EXCEPT !.status = code, !.body = msg]

\* http.NotFound(w, r)
HttpNotFound(r) == HttpError(r, "404 page not found", 404)

\* http.ServeFile on an existing regular file: os.Open follows symlinks
ServeFile(r, entry) ==
    [r EXCEPT !.status = 200,
              !.body = IF CanonicalInside(entry)
                       THEN "content of the file in the base directory"
                       ELSE "content of the file outside the base directory"]

\* http.ServeFile(w, nil, name): r.URL is read through the nil request
ServeFileNilRequest(r) ==
    [r EXCEPT !.aborted = TRUE]

----------------------------------------------------------------------------
(* Utils.GetContentType, Utils.EscapeForHeader *)

GetContentType(filename) ==
    LET ext == ToLower(Ext(filename))
    IN  IF ext = <<46, 112, 100, 102>> THEN "application/pdf"
        ELSE IF ext = <<46, 100, 111, 99>> THEN "application/msword"
        ELSE IF ext = <<46, 100, 111, 99, 120>>
             THEN "application/vnd.openxmlformats-officedocument.wordprocessingml.document"
        ELSE IF ext = <<46, 116, 120, 116>> THEN "text/plain"
        ELSE IF ext = <<46, 109, 100>> THEN "text/markdown"
        ELSE "application/octet-stream"

RECURSIVE ReplaceQuotes(_)
ReplaceQuotes(s) ==
    IF s = <<>> THEN <<>>
    ELSE IF Head(s) = 34 THEN <<92, 34>> \o ReplaceQuotes(Tail(s))
    ELSE <<Head(s)>> \o ReplaceQuotes(Tail(s))

\* strings.ReplaceAll(str, "\"", "\\\"")
EscapeForHeader(s) ==
    IF \A i \in 1..Len(s) : s[i] # 34 THEN s ELSE ReplaceQuotes(s)

----------------------------------------------------------------------------
(* securityMiddleware, AuthMiddleware and the handlers *)

Running(h) == chain # <<>> /\ Head(chain) = h

\* securityMiddleware: a path ending in "/" is answered with http.NotFound and
\* next is not called; otherwise the five headers are set and next is called
SecurityHeaders(r) ==
    LET h1 == SetHeader(r, "X-Content-Type-Options", Value("nosniff"))
        h2 == SetHeader(h1, "X-Frame-Options", Value("DENY"))
        h3 == SetHeader(h2, "X-XSS-Protection", Value("1; mode=block"))
        h4 == SetHeader(h3, "Cache-Control", Value("public, max-age=3600"))
    IN  SetHeader(h4, "Referrer-Policy", Value("strict-origin-when-cross-origin"))

securityMiddleware ==
    /\ Running("securityMiddleware")
    /\ IF HasSuffix(req.path, <<"/">>)
       THEN /\ resp' = HttpNotFound(resp)
            /\ chain' = <<>>
            /\ calls' = Append(calls, "securityMiddleware")
       ELSE /\ resp' = SecurityHeaders(resp)
            /\ chain' = Tail(chain)
            /\ calls' = Append(calls, "securityMiddleware")
    /\ UNCHANGED <<userGuideFile, basePath, fsEntry, getwdOk, server, req, pc,
                   result, result2, svc>>

\* the token comparison of AuthMiddleware
TokenAccepted(authHeader) ==
    TrimPrefix(authHeader, BearerPrefix) = ValidToken

\* AuthMiddleware: 401 unless the token matches, otherwise next is called
AuthMiddleware ==
    /\ Running("AuthMiddleware")
    /\ IF ~TokenAccepted(req.auth)
       THEN /\ resp' = HttpError(resp, "Unauthorized", 401)
            /\ chain' = <<>>
            /\ calls' = Append(calls, "AuthMiddleware")
       ELSE /\ resp' = resp
            /\ chain' = Tail(chain)
            /\ calls' = calls \o <<"AuthMiddleware", "authorized">>
    /\ UNCHANGED <<userGuideFile, basePath, fsEntry, getwdOk, server, req, pc,
                   result, result2, svc>>

\* the error response of DownloadUserGuideHandler echoing the service error
NotAvailableEchoingError(r, failure) ==
    HttpError(r, failure.err, 404)

\* the error response of DownloadUserGuideHandler
NotAvailable(r, failure) ==
    HttpError(r, "User guide not available", 404)

\* the success response of DownloadUserGuideHandler
ServeUserGuide(r, filePath, entry) ==
    LET safeFilename == Base(filePath)
        h1 == SetHeader(r, "Content-Type", Value(GetContentType(safeFilename)))
        h2 == SetHeader(h1, "Content-Disposition",
                        [text |-> "attachment; filename=",
                         arg |-> EscapeForHeader(safeFilename)])
        h3 == SetHeader(h2, "X-Content-Type-Options", Value("nosniff"))
        h4 == SetHeader(h3, "X-Frame-Options", Value("DENY"))
        h5 == SetHeader(h4, "Cache-Control", Value("public, max-age=3600"))
    IN  ServeFile(h5, entry)

DownloadUserGuideHandler ==
    /\ Running("DownloadUserGuideHandler")
    /\ result' = ValidateFilename(userGuideFile)
    /\ svc' = DownloadUserGuide(userGuideFile, basePath, fsEntry, getwdOk)
    /\ IF ~svc'.ok
       THEN /\ resp' = NotAvailable(resp, svc')
            /\ calls' = calls \o <<"DownloadUserGuideHandler", "DownloadUserGuide">>
       ELSE /\ resp' = ServeUserGuide(resp, svc'.path, fsEntry)
            /\ calls' = calls \o <<"DownloadUserGuideHandler", "DownloadUserGuide",
                                  "ServeFile">>
    /\ chain' = Tail(chain)
    /\ UNCHANGED <<userGuideFile, basePath, fsEntry, getwdOk, server, req, pc, result2>>

HealthCheckHandler ==
    /\ Running("HealthCheckHandler")
    /\ resp' = [SetHeader(resp, "Content-Type", Value("application/json"))
                    EXCEPT !.status = 200, !.body = "{\"status\": \"healthy\"}"]
    /\ chain' = Tail(chain)
    /\ calls' = Append(calls, "HealthCheckHandler")
    /\ UNCHANGED <<userGuideFile, basePath, fsEntry, getwdOk, server, req, pc,
                   result, result2, svc>>

\* sendPDF: the two headers, then http.ServeFile with a nil request
sendPDF(r) ==
    LET h1 == SetHeader(r, "Content-Type", Value("application/pdf"))
        h2 == SetHeader(h1, "Content-Disposition",
                        Value("attachment; filename=\"user-guide.pdf\""))
    IN  ServeFileNilRequest(h2)

PublicDownloadHandler ==
    /\ Running("PublicDownloadHandler")
    /\ resp' = sendPDF(resp)
    /\ chain' = Tail(chain)
    /\ calls' = calls \o <<"PublicDownloadHandler", "sendPDF">>
    /\ UNCHANGED <<userGuideFile, basePath, fsEntry, getwdOk, server, req, pc,
                   result, result2, svc>>

ProtectedDownloadHandler ==
    /\ Running("ProtectedDownloadHandler")
    /\ resp' = sendPDF(resp)
    /\ chain' = Tail(chain)
    /\ calls' = calls \o <<"ProtectedDownloadHandler", "sendPDF">>
    /\ UNCHANGED <<userGuideFile, basePath, fsEntry, getwdOk, server, req, pc,
                   result, result2, svc>>

\* http.StripPrefix("/static/", http.FileServer(http.Dir("/static/"))): the
\* named file is served when it exists
StaticFileServer ==
    /\ Running("StaticFileServer")
    /\ \E found \in BOOLEAN :
         resp' = IF found
                 THEN [resp EXCEPT !.status = 200, !.body = "content of a file under /static/"]
                 ELSE HttpNotFound(resp)
    /\ chain' = Tail(chain)
    /\ calls' = Append(calls, "StaticFileServer")
    /\ UNCHANGED <<userGuideFile, basePath, fsEntry, getwdOk, server, req, pc,
                   result, result2, svc>>

----------------------------------------------------------------------------
(* main: the two route tables *)

\* the handlers the router of main runs for a request, outermost first; empty
\* when no route matches
\*   static: /public/download, /protected/download behind AuthMiddleware, /static/
\*   config: securityMiddleware in front of /download/userguide and /health
RouteChain(srv, path) ==
    IF srv = "static"
    THEN IF path = PathPublic THEN <<"PublicDownloadHandler">>
         ELSE IF path = PathProtected
              THEN <<"AuthMiddleware", "ProtectedDownloadHandler">>
         ELSE IF HasPrefix(path, PrefixStatic) THEN <<"StaticFileServer">>
         ELSE <<>>
    ELSE IF path = PathUserGuide
         THEN <<"securityMiddleware", "DownloadUserGuideHandler">>
         ELSE IF path = PathHealth
              THEN <<"securityMiddleware", "HealthCheckHandler">>
         ELSE <<>>

\* the routes registered with Methods("GET"); the /static/ prefix takes any method
MethodAllowed(path, method) ==
    method = "GET" \/ HasPrefix(path, PrefixStatic)

\* mux.Router.ServeHTTP: 404 without any middleware when no route matches,
\* 405 when only the method differs
Router ==
    /\ Running("Router")
    /\ LET matched == RouteChain(server, req.path)
       IN  IF matched = <<>>
           THEN /\ resp' = HttpNotFound(resp)
                /\ chain' = <<>>
           ELSE IF ~MethodAllowed(req.path, req.method)
                THEN /\ resp' = [resp EXCEPT !.status = 405]
                     /\ chain' = <<>>
           ELSE /\ resp' = resp
                /\ chain' = matched
    /\ calls' = Append(calls, "Router")
    /\ UNCHANGED <<userGuideFile, basePath, fsEntry, getwdOk, server, req, pc,
                   result, result2, svc>>

\* the request has been answered
Done == chain = <<>> /\ calls # <<>>

\* configured filenames, one for each way the service ends:
\* a.pdf  a.PDF  .pdf  a.exe  a  %  %00  %01  /  a..pdf  .  a%2epdf  and 256 times 'a'
ConfiguredFiles ==
    { <<97, 46, 112, 100, 102>>, <<97, 46, 80, 68, 70>>, <<46, 112, 100, 102>>,
      <<97, 46, 101, 120, 101>>, <<97>>, <<37>>, <<37, 48, 48>>, <<37, 48, 49>>,
      <<47>>, <<97, 46, 46, 112, 100, 102>>, <<46>>,
      <<97, 37, 50, 101, 112, 100, 102>>, Repeat(97, MaxFilenameLen + 1) }

\* Authorization headers of the requests to the servers:
\* absent, "Bearer valid-oauth-token", "valid-oauth-token", "Bearer x"
ServerAuthHeaders ==
    { <<>>, BearerPrefix \o ValidToken, ValidToken, BearerPrefix \o <<120>> }

----------------------------------------------------------------------------
(* The service call, shared by the harnesses and the handler *)

\* FileService.DownloadUserGuide called directly
CallDownloadUserGuide ==
    /\ pc = "input"
    /\ result' = ValidateFilename(userGuideFile)
    /\ svc' = DownloadUserGuide(userGuideFile, basePath, fsEntry, getwdOk)
    /\ pc' = "returned"
    /\ UNCHANGED <<userGuideFile, basePath, fsEntry, getwdOk, server, req, chain,
                   calls, resp, result2>>

----------------------------------------------------------------------------
(* The validator on its own: validate, then validate the output again; and *)
(* the service on the same filename with the file present in /g            *)

InitValidate ==
    /\ userGuideFile \in ValidateInputs
    /\ basePath = <<47, 103>>
    /\ fsEntry = "file"
    /\ getwdOk = TRUE
    /\ server = "none"
    /\ req = NoRequest
    /\ chain = <<>>
    /\ calls = <<>>
    /\ resp = NewResponse
    /\ pc = "input"
    /\ result = NoResult
    /\ result2 = NoResult
    /\ svc = NoSvc

Validate ==
    /\ pc = "input"
    /\ result' = ValidateFilename(userGuideFile)
    /\ pc' = "validated"
    /\ UNCHANGED <<userGuideFile, basePath, fsEntry, getwdOk, server, req, chain,
                   calls, resp, result2, svc>>

Revalidate ==
    /\ pc = "validated"
    /\ result.ok
    /\ result2' = ValidateFilename(result.name)
    /\ pc' = "revalidated"
    /\ UNCHANGED <<userGuideFile, basePath, fsEntry, getwdOk, server, req, chain,
                   calls, resp, result, svc>>

NextValidate == Validate \/ Revalidate \/ CallDownloadUserGuide

SpecValidate == InitValidate /\ [][NextValidate]_vars

----------------------------------------------------------------------------
(* The service over configurations and filesystem states *)

InitService ==
    /\ userGuideFile \in ServiceInputs
    /\ basePath \in BasePaths
    /\ fsEntry \in FsEntries
    /\ getwdOk \in BOOLEAN
    /\ server = "none"
    /\ req = NoRequest
    /\ chain = <<>>
    /\ calls = <<>>
    /\ resp = NewResponse
    /\ pc = "input"
    /\ result = NoResult
    /\ result2 = NoResult
    /\ svc = NoSvc

NextService == CallDownloadUserGuide

SpecService == InitService /\ [][NextService]_vars

----------------------------------------------------------------------------
(* AuthMiddleware wrapping ProtectedDownloadHandler, as the tests build it *)

InitAuth ==
    /\ userGuideFile = <<>>
    /\ basePath = <<47, 103>>
    /\ fsEntry = "file"
    /\ getwdOk = TRUE
    /\ server = "none"
    /\ req \in [path : {PathProtected}, method : {"GET"}, auth : AuthHeaders]
    /\ chain = <<"AuthMiddleware", "ProtectedDownloadHandler">>
    /\ calls = <<>>
    /\ resp = NewResponse
    /\ pc = "http"
    /\ result = NoResult
    /\ result2 = NoResult
    /\ svc = NoSvc

NextAuth == AuthMiddleware \/ ProtectedDownloadHandler

SpecAuth == InitAuth /\ [][NextAuth]_vars

----------------------------------------------------------------------------
(* securityMiddleware wrapping a handler of the configured server *)

InitMiddleware ==
    /\ userGuideFile \in ConfiguredFiles
    /\ basePath = <<47, 103>>
    /\ fsEntry \in FsEntries
    /\ getwdOk = TRUE
    /\ server = "none"
    /\ req \in [path : RequestPaths, method : {"GET"}, auth : {<<>>}]
    /\ chain \in { <<"securityMiddleware", "DownloadUserGuideHandler">>,
                   <<"securityMiddleware", "HealthCheckHandler">> }
    /\ calls = <<>>
    /\ resp = NewResponse
    /\ pc = "http"
    /\ result = NoResult
    /\ result2 = NoResult
    /\ svc = NoSvc

NextMiddleware == securityMiddleware \/ DownloadUserGuideHandler \/ HealthCheckHandler

SpecMiddleware == InitMiddleware /\ [][NextMiddleware]_vars

----------------------------------------------------------------------------
(* The two servers of main behind their routers *)

InitServer ==
    /\ userGuideFile \in ConfiguredFiles
    /\ basePath = <<47, 103>>
    /\ fsEntry \in FsEntries
    /\ getwdOk = TRUE
    /\ server \in {"static", "config"}
    /\ req \in [path : RequestPaths, method : RequestMethods, auth : ServerAuthHeaders]
    /\ chain = <<"Router">>
    /\ calls = <<>>
    /\ resp = NewResponse
    /\ pc = "http"
    /\ result = NoResult
    /\ result2 = NoResult
    /\ svc = NoSvc

NextServer ==
    \/ Router
    \/ securityMiddleware
    \/ AuthMiddleware
    \/ DownloadUserGuideHandler
    \/ HealthCheckHandler
    \/ PublicDownloadHandler
    \/ ProtectedDownloadHandler
    \/ StaticFileServer

SpecServer == InitServer /\ [][NextServer]_vars

----------------------------------------------------------------------------
(* Properties of the validator *)

\* one round of percent-decoding that leaves malformed escapes in place
IsEscapeAt(s, i) ==
    s[i] = 37 /\ i + 2 <= Len(s) /\ IsHex(s[i + 1]) /\ IsHex(s[i + 2])

InsideEscape(s, i) ==
    \/ i > 1 /\ IsEscapeAt(s, i - 1)
    \/ i > 2 /\ IsEscapeAt(s, i - 2)

RECURSIVE PercentDecodeRange(_, _, _)
PercentDecodeRange(s, lo, hi) ==
    IF lo > hi THEN <<>>
    ELSE LET starts == {i \in (lo + 1)..hi : ~InsideEscape(s, i)}
             mid == (lo + hi) \div 2
             dist(i) == IF i >= mid THEN i - mid ELSE mid - i
         IN  IF starts = {}
             THEN IF IsEscapeAt(s, lo)
                  THEN <<UnHex(s[lo + 1]) * 16 + UnHex(s[lo + 2])>>
                  ELSE SubSeq(s, lo, hi)
             ELSE LET m == CHOOSE i \in starts : \A j \in starts : dist(i) <= dist(j)
                  IN  PercentDecodeRange(s, lo, m - 1) \o PercentDecodeRange(s, m, hi)

PercentDecode(s) == PercentDecodeRange(s, 1, Len(s))

\* "../"
DotDotSlash == <<46, 46, 47>>

\* s contains "../" raw, percent-encoded once or percent-encoded twice
HasTraversal(s) ==
    \/ Contains(s, DotDotSlash)
    \/ Contains(PercentDecode(s), DotDotSlash)
    \/ Contains(PercentDecode(PercentDecode(s)), DotDotSlash)

\* C1: a filename that contains "../" raw, percent-encoded once or
\* percent-encoded twice is rejected by ValidateFilename, and
\* DownloadUserGuide configured with it returns no path.
TraversalNeverSucceeds ==
    (pc # "input" /\ HasTraversal(userGuideFile)) =>
        /\ ~result.ok
        /\ pc = "returned" => ~svc.ok

\* the service has been called with the twice-encoded %252e%252e%252f
TraversalTried ==
    /\ pc = "returned"
    /\ userGuideFile = <<37, 50, 53, 50, 101, 37, 50, 53, 50, 101, 37, 50, 53, 50, 102>>
    /\ HasTraversal(userGuideFile)
    /\ ~svc.ok

\* the characters of a sanitized filename: letters, digits, '.', '_', '-'
SanitizedChars == (97..122) \cup (65..90) \cup (48..57) \cup {46, 95, 45}

\* C2: a filename returned by ValidateFilename is non-empty, has only
\* characters of [A-Za-z0-9._-], is not "." or "..", is at most 255 long and
\* has no '/' or '\'.
SanitizedFilenameInv ==
    (pc \in {"validated", "revalidated", "returned"} /\ result.ok) =>
        /\ Len(result.name) > 0
        /\ \A i \in 1..Len(result.name) : result.name[i] \in SanitizedChars
        /\ result.name # <<46>>
        /\ result.name # <<46, 46>>
        /\ Len(result.name) <= 255
        /\ \A i \in 1..Len(result.name) : result.name[i] \notin {47, 92}

\* a filename of exactly 255 characters has been accepted
LongestNameAccepted ==
    pc = "validated" /\ result.ok /\ Len(result.name) = 255

\* C8: validating an accepted output again accepts it and returns it
\* unchanged.
ValidateIdempotent ==
    pc = "revalidated" => (result2.ok /\ result2.name = result.name)

\* an output that differs from its percent-encoded input has been validated again
DecodedOutputRevalidated ==
    pc = "revalidated" /\ result.name # userGuideFile /\ result2.ok

----------------------------------------------------------------------------
(* Properties of the resolver *)

\* C3: a path returned by DownloadUserGuide names a file whose symlink-resolved
\* location lies inside the base directory; an entry that is a symlink to a
\* regular file outside the base directory is refused.
ContainmentOfResolvedPath ==
    (pc = "returned" /\ svc.ok) => CanonicalInside(fsEntry)

\* the suffix of s from its final '.', empty when s has no '.'
FinalDotSuffix(s) ==
    LET dots == {i \in 1..Len(s) : s[i] = 46}
    IN  IF dots = {} THEN <<>>
        ELSE SubSeq(s, CHOOSE i \in dots : \A j \in dots : j <= i, Len(s))

\* the suffix lowercased
LowerSuffix(s) ==
    LET x == FinalDotSuffix(s)
    IN  [i \in 1..Len(x) |-> IF x[i] \in 65..90 THEN x[i] + 32 ELSE x[i]]

\* ".pdf", ".doc", ".docx", ".txt", ".md"
AllowList ==
    { <<46, 112, 100, 102>>, <<46, 100, 111, 99>>, <<46, 100, 111, 99, 120>>,
      <<46, 116, 120, 116>>, <<46, 109, 100>> }

\* C7 as stated: a configured filename whose lowercased extension is outside
\* the allow-list is rejected with "file type not allowed: <ext>" whatever the
\* validator says about it, and an allow-listed extension in any letter case is
\* not rejected by the extension check.
ExtensionRejectedRegardless ==
    pc = "returned" =>
        /\ LowerSuffix(userGuideFile) \notin AllowList =>
              /\ ~svc.ok
              /\ svc.err = "file type not allowed"
              /\ svc.detail = LowerSuffix(userGuideFile)
        /\ LowerSuffix(userGuideFile) \in AllowList =>
              svc.err # "file type not allowed"

\* C7 amended: when the validator accepts the configured filename and the
\* lowercased extension of the sanitized name is outside the allow-list,
\* DownloadUserGuide rejects with "file type not allowed: <ext>"; when the
\* validator rejects, DownloadUserGuide rejects with the validator's reason; an
\* allow-listed extension in any letter case is not rejected by the extension
\* check.
ExtensionRejectedAfterValidation ==
    pc = "returned" =>
        /\ (result.ok /\ LowerSuffix(result.name) \notin AllowList) =>
              /\ ~svc.ok
              /\ svc.err = "file type not allowed"
              /\ svc.detail = LowerSuffix(result.name)
        /\ ~result.ok =>
              /\ ~svc.ok
              /\ svc.err = result.err
        /\ (result.ok /\ LowerSuffix(result.name) \in AllowList) =>
              svc.err # "file type not allowed"

\* a.exe has been rejected for its extension, with the file present
ExeRejected ==
    /\ pc = "returned"
    /\ userGuideFile = <<97, 46, 101, 120, 101>>
    /\ fsEntry = "file"
    /\ result.ok
    /\ svc.err = "file type not allowed"
    /\ svc.detail = <<46, 101, 120, 101>>

\* the name starts with '.' and has no other '.'
PureDotfile(name) ==
    /\ Len(name) > 0
    /\ name[1] = 46
    /\ \A i \in 2..Len(name) : name[i] # 46

\* C10: a sanitized filename that is a pure dotfile is rejected by
\* DownloadUserGuide with "hidden files not allowed" and no path is returned.
HiddenFilesRejected ==
    (pc = "returned" /\ result.ok /\ PureDotfile(result.name)) =>
        /\ ~svc.ok
        /\ svc.err = "hidden files not allowed"

----------------------------------------------------------------------------
(* Properties of the middlewares, the handlers and the routes *)

Called(h) == \E i \in 1..Len(calls) : calls[i] = h

\* C4: AuthMiddleware calls the wrapped handler exactly when the Authorization
\* header is "Bearer " followed by the expected token; every other request is
\* answered 401 and the wrapped handler is not called.
HandlerIffBearerToken ==
    Done =>
        LET wellFormed == req.auth = BearerPrefix \o ValidToken
        IN  /\ Called("ProtectedDownloadHandler") <=> wellFormed
            /\ ~wellFormed => resp.status = 401

\* C5: on every route, the call of DownloadUserGuide and the transmission of
\* the configured file come after a successful authorization check of the same
\* request, and a request without a valid Authorization header gets neither.
AuthorizationPrecedesPipeline ==
    /\ \A i \in 1..Len(calls) :
          calls[i] \in {"DownloadUserGuide", "ServeFile"} =>
              \E j \in 1..(i - 1) : calls[j] = "authorized"
    /\ req.auth # BearerPrefix \o ValidToken =>
          ~Called("DownloadUserGuide") /\ ~Called("ServeFile")

\* the one response of a failed download behind securityMiddleware
NotAvailableResponse ==
    [status |-> 404,
     body |-> "User guide not available",
     aborted |-> FALSE,
     headers |->
        [h \in HeaderNames |->
            CASE h = "Content-Type" -> [text |-> "text/plain; charset=utf-8", arg |-> <<>>]
              [] h = "Content-Disposition" -> [text |-> "", arg |-> <<>>]
              [] h = "X-Content-Type-Options" -> [text |-> "nosniff", arg |-> <<>>]
              [] h = "X-Frame-Options" -> [text |-> "DENY", arg |-> <<>>]
              [] h = "X-XSS-Protection" -> [text |-> "1; mode=block", arg |-> <<>>]
              [] h = "Cache-Control" -> [text |-> "public, max-age=3600", arg |-> <<>>]
              [] h = "Referrer-Policy" ->
                    [text |-> "strict-origin-when-cross-origin", arg |-> <<>>]]]

\* C6: whatever makes DownloadUserGuide fail, DownloadUserGuideHandler answers
\* with the same response: 404, the fixed body, and no file content,
\* Content-Type or Content-Disposition derived from the filename.
NoRejectionOracle ==
    (Done /\ Called("DownloadUserGuide") /\ ~svc.ok) => resp = NotAvailableResponse

\* the configured a.exe has been refused for its extension and answered
ExeAnsweredNotFound ==
    /\ Done
    /\ Called("DownloadUserGuideHandler")
    /\ userGuideFile = <<97, 46, 101, 120, 101>>
    /\ svc.err = "file type not allowed"
    /\ resp.status = 404

FiveSecurityHeaders(r) ==
    /\ r.headers["X-Content-Type-Options"] = [text |-> "nosniff", arg |-> <<>>]
    /\ r.headers["X-Frame-Options"] = [text |-> "DENY", arg |-> <<>>]
    /\ r.headers["X-XSS-Protection"] = [text |-> "1; mode=block", arg |-> <<>>]
    /\ r.headers["Cache-Control"] = [text |-> "public, max-age=3600", arg |-> <<>>]
    /\ r.headers["Referrer-Policy"] =
          [text |-> "strict-origin-when-cross-origin", arg |-> <<>>]

\* C9: every response of a handler behind securityMiddleware, the middleware's
\* own 404 for a path ending in "/" included, carries the five security headers
\* with their values, and a request whose path ends in "/" reaches no
\* downstream handler.
SecurityHeadersOnEveryResponse ==
    Done =>
        /\ FiveSecurityHeaders(resp)
        /\ req.path[Len(req.path)] = "/" =>
              /\ ~Called("DownloadUserGuideHandler")
              /\ ~Called("HealthCheckHandler")

----------------------------------------------------------------------------
(* Order of the validator's checks *)

\* the rejection reason an error message of ValidateFilename stands for
ReasonOf(err) ==
    CASE err = "invalid filename encoding" -> "InvalidEncoding"
      [] err = "null byte detected in filename" -> "ControlCharacter"
      [] err = "control character detected in filename" -> "ControlCharacter"
      [] err = "filename contains invalid characters" -> "InvalidCharacters"
      [] err = "filename too long" -> "TooLong"
      [] err = "dangerous pattern detected in filename" -> "DangerousPattern"
      [] err = "invalid filename after sanitization" -> "InvalidAfterSanitization"
      [] OTHER -> "none"

SixReasons ==
    { "InvalidEncoding", "ControlCharacter", "InvalidCharacters", "TooLong",
      "DangerousPattern", "InvalidAfterSanitization" }

\* "..", "~/", "/", "\", ":", "*", "?", '"', "<", ">", "|"
DangerousSubstrings ==
    { <<46, 46>>, <<126, 47>>, <<47>>, <<92>>, <<58>>, <<42>>, <<63>>,
      <<34>>, <<60>>, <<62>>, <<124>> }

Lowercased(s) ==
    [i \in 1..Len(s) |-> IF s[i] \in 65..90 THEN s[i] + 32 ELSE s[i]]

\* the six checks in their order, each on the once-decoded input; the
\* character-class check is that of a non-empty string
FailsDecode(x) == \E i \in 1..Len(x) : x[i] = 37 /\ ~IsEscapeAt(x, i)
FailsControl(d) == \E i \in 1..Len(d) : d[i] < 32 /\ d[i] \notin {9, 10, 13}
FailsClass(d) == Len(d) = 0 \/ \E i \in 1..Len(d) : d[i] \notin SanitizedChars
FailsLength(d) == Len(d) > 255
FailsDangerous(d) == \E p \in DangerousSubstrings : Contains(Lowercased(d), p)
FailsBaseName(d) == d \in {<<>>, <<46>>, <<46, 46>>}

\* the reason of the earliest check the input fails, "none" when it passes all
EarliestFailure(x) ==
    IF FailsDecode(x) THEN "InvalidEncoding"
    ELSE LET d == PercentDecode(x)
         IN  IF FailsControl(d) THEN "ControlCharacter"
             ELSE IF FailsClass(d) THEN "InvalidCharacters"
             ELSE IF FailsLength(d) THEN "TooLong"
             ELSE IF FailsDangerous(d) THEN "DangerousPattern"
             ELSE IF FailsBaseName(d) THEN "InvalidAfterSanitization"
             ELSE "none"

\* one input for each reason: %  %01  /  256 times 'a'  ..a  .
ReasonSamples ==
    { <<37>>, <<37, 48, 49>>, <<47>>, Repeat(97, 256), <<46, 46, 97>>, <<46>> }

\* C11: ValidateFilename rejects with the reason of the earliest check, in the
\* order decode, control scan, character class, length, dangerous substring,
\* base name, that the input fails, and accepts when none fails; a rejection
\* returns no filename; each of the six reasons is produced by some input
\* (evaluated in the states of the six sample inputs).
FirstFailureWins ==
    pc = "validated" =>
        /\ result.ok <=> EarliestFailure(userGuideFile) = "none"
        /\ ~result.ok =>
              /\ ReasonOf(result.err) = EarliestFailure(userGuideFile)
              /\ result.name = <<>>
        /\ userGuideFile \in ReasonSamples =>
              \A r \in SixReasons :
                  \E x \in ReasonSamples : ReasonOf(ValidateFilename(x).err) = r

\* %0a followed by 255 times 'a' passes the control scan (line feed), fails
\* the character-class and the length checks, and has been rejected for its
\* characters
EarliestOfThreeReported ==
    /\ pc = "validated"
    /\ userGuideFile = <<37, 48, 97>> \o Repeat(97, 255)
    /\ FailsClass(PercentDecode(userGuideFile))
    /\ FailsLength(PercentDecode(userGuideFile))
    /\ ~result.ok
    /\ result.err = "filename contains invalid characters"

====
